---- MODULE Spec2Model ----
(***************************************************************************)
(* gtnh-flow: the overclock calculator (src/src/gtnh/overclock_calculator  *)
(* .py) and the parallel helper (src/src/gtnh/parallel_helper.py) as a     *)
(* state machine over one OverclockCalculator object and one               *)
(* ParallelHelper object wrapping it.                                      *)
(*                                                                         *)
(* Arithmetic.  The Python code computes in IEEE doubles; the model        *)
(* computes the same expressions in exact rational arithmetic.  A          *)
(* rational is a pair <<n, d>> with d > 0.  A power tier                   *)
(*     t = 1 + max(0, log2(v) - 5) / 2                                     *)
(* is represented by the quantity q = 32 * 4^(t-1) = max(v, 32), so that   *)
(* a difference of tiers is a log4 of a quotient of two rationals, whose   *)
(* truncation and ceiling are computed exactly by repeated multiplication. *)
(***************************************************************************)
EXTENDS Integers, Sequences, FiniteSets, TLC

VARIABLES
    calc,       \* the OverclockCalculator object's fields, or NoObject
    helper,     \* the ParallelHelper object's fields, or NoObject
    op,         \* the last operation called
    arg,        \* the arguments of the last operation
    err,        \* the exception the last operation raised, or "none"
    ret,        \* the value the last operation returned, or NoObject
    before,     \* calc as it was when the last operation was called
    results,    \* the results of the calculate() calls made in a row
    nbuild      \* the number of build() calls made on the helper

vars == <<calc, helper, op, arg, err, ret, before, results, nbuild>>

NoObject == [none |-> TRUE]

----------------------------------------------------------------------------
(* Bounds of the model.                                                    *)

MaxTier == 3            \* machine voltages are 8 * 4^t for t in 0..MaxTier
MaxHeatSteps == 3       \* heat surplus is 900 * j for j in -1..MaxHeatSteps
MaxOcLimit == 1         \* overclock limits are drawn from -1..MaxOcLimit
MaxCalls == 2           \* calculate() calls in a row
MaxBuilds == 1          \* build() calls on one helper
MaxParallelArg == 4     \* largest requested max_parallel
MaxVoltageOffset == 3   \* looked-up voltages are within this of a power 8 * 4^n

----------------------------------------------------------------------------
(* Program constants.                                                      *)

HEAT_DISCOUNT_THRESHOLD == 900
HEAT_PERFECT_OVERCLOCK_THRESHOLD == 1800
ULV == 8
MAX_PLUS_TIER == 15     \* the number of the highest tier, MAX_PLUS

----------------------------------------------------------------------------
(* Exact arithmetic for math.ceil, math.floor, int(), math.pow, math.log.  *)

Min(a, b) == IF a <= b THEN a ELSE b
Max(a, b) == IF a >= b THEN a ELSE b

RECURSIVE Pow(_, _)
Pow(b, k) == IF k <= 0 THEN 1 ELSE b * Pow(b, k - 1)

\* math.floor and math.ceil of the rational n/d, d > 0
Floor(n, d) == n \div d
Ceil(n, d) == -((-n) \div d)
\* int(): truncation toward zero
Trunc(n, d) == IF n >= 0 THEN n \div d ELSE -((-n) \div d)

\* the rational x * b^k for an integer k of either sign
MulPow(x, b, k) ==
    IF k >= 0 THEN <<x[1] * Pow(b, k), x[2]>> ELSE <<x[1], x[2] * Pow(b, -k)>>
Mul(x, y) == <<x[1] * y[1], x[2] * y[2]>>
\* the same product with the common factors cancelled crosswise first, for
\* x, y >= 0: the quotient is the same and the terms stay small
RECURSIVE Gcd(_, _)
Gcd(a, b) == IF b = 0 THEN a ELSE Gcd(b, a % b)
Reduced(x) == <<x[1] \div Gcd(x[1], x[2]), x[2] \div Gcd(x[1], x[2])>>
MulReduced(x, y) ==
    <<(x[1] \div Gcd(x[1], y[2])) * (y[1] \div Gcd(y[1], x[2])),
      (x[2] \div Gcd(y[1], x[2])) * (y[2] \div Gcd(x[1], y[2]))>>
Less(x, y) == x[1] * y[2] < y[1] * x[2]

\* math.ceil(n * a / b) for n, a >= 0 and b > 0, with the product n * a taken
\* in two parts: n * a = X * 1024 + Y
CeilMulDiv(n, a, b) ==
    LET X == n * (a \div 1024)
        Y == n * (a % 1024)
        T == (X % b) * 1024 + Y
    IN  (X \div b) * 1024 + T \div b + (IF T % b = 0 THEN 0 ELSE 1)

\* largest n >= 0 with Q * b^n <= P, for integers P >= Q > 0 and b >= 2
RECURSIVE FloorLog(_, _, _)
FloorLog(P, Q, b) == IF Q > P \div b THEN 0 ELSE 1 + FloorLog(P, b * Q, b)
\* smallest n >= 0 with Q * b^n >= P, for integers P, Q > 0 and b >= 2
RECURSIVE CeilLog(_, _, _)
CeilLog(P, Q, b) == IF Q >= P THEN 0 ELSE 1 + CeilLog(P, b * Q, b)
\* int(log_b(P / Q)) for integers P, Q > 0
TruncLog(P, Q, b) == IF P >= Q THEN FloorLog(P, Q, b) ELSE -FloorLog(Q, P, b)
\* FloorLog(A * D, Q, b) for A * D >= Q, taking the factors b out of A before
\* the product is formed
RECURSIVE FloorLogProd(_, _, _, _)
FloorLogProd(A, D, Q, b) ==
    IF A % b # 0 THEN FloorLog(A * D, Q, b)
    ELSE IF A \div b >= Ceil(Q, D) THEN 1 + FloorLogProd(A \div b, D, Q, b)
    ELSE 0
\* TruncLog(A * D, Q, b) for integers A, D, Q > 0
TruncLogProd(A, D, Q, b) ==
    IF A >= Ceil(Q, D) THEN FloorLogProd(A, D, Q, b) ELSE -FloorLog(Q, A * D, b)

----------------------------------------------------------------------------
(* VoltageTier.  Voltages reach 2^35, so a voltage is a pair <<hi, lo>> of  *)
(* value hi * 2^20 + lo with 0 <= lo < 2^20, compared limb by limb.        *)

Limb == Pow(2, 20)
Wide(n) == <<n \div Limb, n % Limb>>
WideAdd(w, n) == <<w[1] + (w[2] + n) \div Limb, (w[2] + n) % Limb>>
WideLess(a, b) == a[1] < b[1] \/ (a[1] = b[1] /\ a[2] < b[2])
WideLeq(a, b) == a = b \/ WideLess(a, b)

\* int(math.pow(2, 3 + 2 * tier)), the voltage 8 * 4^tier
TierVoltage(tier) ==
    IF 3 + 2 * tier < 20 THEN <<0, Pow(2, 3 + 2 * tier)>>
    ELSE <<Pow(2, 3 + 2 * tier - 20), 0>>

\* the values of the sixteen members ULV .. MAX_PLUS
Members == {TierVoltage(n) : n \in 0..MAX_PLUS_TIER}

\* the condition of _missing_: 1 <= value < MAX_PLUS * 4
InMissingRange(value) ==
    /\ WideLeq(Wide(1), value)
    /\ WideLess(value, TierVoltage(MAX_PLUS_TIER + 1))

\* the largest n from tier on with 8 * 4^n <= value: floor where _missing_
\* takes the ceiling
RECURSIVE TierNumberFloor(_, _)
TierNumberFloor(value, tier) ==
    IF WideLess(value, TierVoltage(tier + 1)) THEN tier
    ELSE TierNumberFloor(value, tier + 1)

\* max(0, math.ceil((math.log(value, 2) - 3) / 2)) for a value >= 1: the
\* smallest n from tier on with value <= 8 * 4^n
RECURSIVE TierNumber(_, _)
TierNumber(value, tier) ==
    IF WideLeq(value, TierVoltage(tier)) THEN tier
    ELSE TierNumber(value, tier + 1)

\* VoltageTier(value): the member of that value, else what _missing_ and
\* _from_number find; [err, ret], ret being the member's value
RECURSIVE VoltageTier(_)
VoltageTier(value) ==
    IF value \in Members THEN [err |-> "none", ret |-> value]
    ELSE IF InMissingRange(value)
    THEN VoltageTier(TierVoltage(TierNumber(value, 0)))
    ELSE [err |-> "ValueError", ret |-> NoObject]

----------------------------------------------------------------------------
(* OverclockCalculator: the pure helpers of calculate().                   *)

\* _power_tier(voltage): the tier 1 + max(0, log2(v) - 5) / 2 as the
\* quantity 32 * 4^(tier - 1) = max(v, 32); math.log raises for v <= 0
PowerTierDefined(v) == v[1] > 0
PowerTier(v) == IF v[1] >= 32 * v[2] THEN v ELSE <<32, 1>>

\* math.ceil(_power_tier(v)) for an integer v > 0
CeilPowerTier(v) == 1 + CeilLog(Max(v, 32), 32, 4)

\* heat_discounts counted per perfect-overclock threshold instead of per
\* discount threshold
HeatDiscountsPerPerfectStep(c) ==
    IF c.has_heat_discount
    THEN (c.machine_heat - c.recipe_heat) \div HEAT_PERFECT_OVERCLOCK_THRESHOLD
    ELSE 0

\* _heat_discount_multiplier(): heat_discount_multi ^ heat_discounts
HeatDiscounts(c) ==
    IF c.has_heat_discount
    THEN (c.machine_heat - c.recipe_heat) \div HEAT_DISCOUNT_THRESHOLD
    ELSE 0
HeatDiscountMultiplier(c) ==
    LET k == HeatDiscounts(c)
        m == c.heat_discount_multi
    IN  IF k >= 0 THEN <<Pow(m[1], k), Pow(m[2], k)>>
        ELSE <<Pow(m[2], -k), Pow(m[1], -k)>>

\* _amount_of_overclocks(machine_power_tier, recipe_power_tier)
AmountOfOverclocks(mt, rt) == TruncLogProd(mt[1], rt[2], mt[2] * rt[1], 4)

\* _machine_power_tier()
MachinePowerArg(c) ==
    LET amp == IF c.does_amperage_oc THEN c.machine_amperage
               ELSE Min(c.machine_amperage, c.parallel)
    IN  <<c.machine_voltage * amp, 1>>
MachinePowerTier(c) == PowerTier(MachinePowerArg(c))

\* _recipe_power_tier(heat_discount_multiplier)
RecipePowerArg(c, hdm) ==
    MulReduced(
        MulReduced(<<c.recipe_voltage * c.parallel * c.recipe_amperage, 1>>,
                   c.eut_discount), hdm)
RecipePowerTier(c, hdm) == PowerTier(RecipePowerArg(c, hdm))

\* both tiers are defined: neither math.log raises
TiersDefined(c) ==
    /\ PowerTierDefined(MachinePowerArg(c))
    /\ PowerTierDefined(RecipePowerArg(c, HeatDiscountMultiplier(c)))

\* _amount_of_heat_overclocks()
AmountOfHeatOverclocks(c) ==
    Min((c.machine_heat - c.recipe_heat) \div HEAT_PERFECT_OVERCLOCK_THRESHOLD,
        AmountOfOverclocks(MachinePowerTier(c),
                           RecipePowerTier(c, HeatDiscountMultiplier(c))))

\* _amount_of_needed_overclocks(machine_power_tier, recipe_power_tier);
\* math.ceil(math.log(duration, d)) for duration >= 1 and d >= 2
AmountOfNeededOverclocks(c, mt, rt) ==
    Min(AmountOfOverclocks(mt, rt),
        CeilLog(c.duration, 1, c.duration_decrease_per_oc))

\* _recipe_to_machine_voltage_diff()
RecipeToMachineVoltageDiff(c) ==
    CeilPowerTier(c.machine_voltage) - CeilPowerTier(c.recipe_voltage)

\* _final_recipe_eut leaving the heat discount out of the product
FinalRecipeEutUndiscounted(c, recipe_voltage, hdm) ==
    LET x == Mul(<<recipe_voltage * c.parallel * c.recipe_amperage, 1>>,
                 c.eut_discount)
    IN  Ceil(x[1], x[2])

\* _final_recipe_eut(recipe_voltage, heat_discount_multiplier)
FinalRecipeEut(c, recipe_voltage, hdm) ==
    LET f == Reduced(Mul(c.eut_discount, hdm))
    IN  CeilMulDiv(recipe_voltage * c.parallel * c.recipe_amperage, f[1], f[2])

----------------------------------------------------------------------------
(* OverclockCalculator._do_laser_oc: the loop, one record per iteration.   *)
(* The penalty is a float sum in the code and an exact rational here: the   *)
(* two agree on every input the bounds below draw; a float product that     *)
(* falls just short of an integer truncates one lower than the exact one.   *)

\* x + y, kept over the common denominator when there is one
Add(x, y) ==
    IF x[2] = y[2] THEN <<x[1] + y[1], x[2]>>
    ELSE <<x[1] * y[2] + y[1] * x[2], x[2] * y[2]>>

\* the loop's condition comparing against twice the available power
LaserGuardDoubledPower(c, s) ==
    LET input_eut == 2 * c.machine_voltage * c.machine_amperage
    IN  /\ input_eut * s.penalty[2] > s.recipe_voltage * s.penalty[1]
        /\ s.recipe_voltage * s.penalty[1] > 0
        /\ s.duration > 1

\* the loop's condition, on the locals s at the head of an iteration
LaserGuard(c, s) ==
    LET input_eut == c.machine_voltage * c.machine_amperage
    IN  /\ input_eut * s.penalty[2] > s.recipe_voltage * s.penalty[1]
        /\ s.recipe_voltage * s.penalty[1] > 0
        /\ s.duration > 1

\* the loop's body leaving the duration as it is
LaserStepKeepsDuration(c, s) ==
    [duration |-> s.duration,
     recipe_voltage |-> Trunc(s.recipe_voltage * s.penalty[1], s.penalty[2]),
     penalty |-> Add(s.penalty, c.laser_oc_penalty)]

\* the loop's body
LaserStep(c, s) ==
    [duration |-> s.duration \div c.duration_decrease_per_oc,
     recipe_voltage |-> Trunc(s.recipe_voltage * s.penalty[1], s.penalty[2]),
     penalty |-> Add(s.penalty, c.laser_oc_penalty)]

\* the locals at the head of every iteration, the last being the exit
RECURSIVE LaserTrace(_, _)
LaserTrace(c, s) ==
    IF LaserGuard(c, s) THEN <<s>> \o LaserTrace(c, LaserStep(c, s)) ELSE <<s>>

LaserStart(c, duration, recipe_voltage) ==
    [duration |-> duration, recipe_voltage |-> recipe_voltage,
     penalty |-> Add(<<c.eut_increase_per_oc * c.laser_oc_penalty[2],
                       c.laser_oc_penalty[2]>>, c.laser_oc_penalty)]

\* _do_laser_oc(duration, recipe_voltage)
DoLaserOc(c, duration, recipe_voltage) ==
    LET t == LaserTrace(c, LaserStart(c, duration, recipe_voltage))
    IN  t[Len(t)]

----------------------------------------------------------------------------
(* OverclockCalculator.validate and calculate.                             *)

\* validate() without its check of the heat-step divisor
ValidateWithoutHeatCheck(c) ==
    IF c.does_laser_oc /\ c.does_amperage_oc THEN "ValueError"
    ELSE IF c.duration_decrease_per_oc <= 0 THEN "ValueError"
    ELSE IF c.eut_increase_per_oc <= 0 THEN "ValueError"
    ELSE "none"

\* validate(): the exception it raises, or "none"
Validate(c) ==
    IF c.does_laser_oc /\ c.does_amperage_oc THEN "ValueError"
    ELSE IF c.duration_decrease_per_oc <= 0 THEN "ValueError"
    ELSE IF c.duration_decrease_per_heat_oc <= 0 THEN "ValueError"
    ELSE IF c.eut_increase_per_oc <= 0 THEN "ValueError"
    ELSE "none"

OverclockCalculatorResult(duration, recipe_voltage, overclock_count) ==
    [duration |-> duration, recipe_voltage |-> recipe_voltage,
     overclock_count |-> overclock_count]

\* the overclock count of calculate() dropping to 0, instead of to the cap,
\* when it exceeds the cap
OverclockCountResetAtCap(c) ==
    LET mt == MachinePowerTier(c)
        rt == RecipePowerTier(c, HeatDiscountMultiplier(c))
        needed == AmountOfNeededOverclocks(c, mt, rt)
        by_voltage == IF c.does_amperage_oc THEN needed
                      ELSE Min(needed, RecipeToMachineVoltageDiff(c))
        clamped == Max(by_voltage, 0)
    IN  IF c.limits_overclocks /\ clamped > c.max_overclocks THEN 0 ELSE clamped

\* the overclock count of calculate(), lines 175-184
OverclockCount(c) ==
    LET mt == MachinePowerTier(c)
        rt == RecipePowerTier(c, HeatDiscountMultiplier(c))
        needed == AmountOfNeededOverclocks(c, mt, rt)
        by_voltage == IF c.does_amperage_oc THEN needed
                      ELSE Min(needed, RecipeToMachineVoltageDiff(c))
        clamped == Max(by_voltage, 0)
    IN  IF c.limits_overclocks THEN Min(c.max_overclocks, clamped) ELSE clamped

\* the heat overclock count of calculate(), lines 156, 169-170 and 186
HeatOverclockCount(c) ==
    Min(IF c.does_heat_oc THEN AmountOfHeatOverclocks(c) ELSE 0,
        OverclockCount(c))

\* the exception calculate() raises, or "none": math.log of a number <= 0
\* is a ValueError, a logarithm to base 1 a ZeroDivisionError
CalculateError(c) ==
    IF c.does_not_overclock THEN "none"
    ELSE IF ~TiersDefined(c) THEN "ValueError"
    ELSE IF c.duration <= 0 THEN "ValueError"
    ELSE IF c.duration_decrease_per_oc = 1 THEN "ZeroDivisionError"
    ELSE "none"

\* the value has_one_tick_discount stores in self.recipe_voltage, lines 202-210
OneTickDiscount(c) ==
    LET mt == MulPow(MachinePowerTier(c), 4, -OverclockCount(c))
        rt == RecipePowerTier(c, HeatDiscountMultiplier(c))
        e == AmountOfOverclocks(mt, rt)
        x == MulPow(<<c.recipe_voltage, 1>>, c.duration_decrease_per_oc, -e)
    IN  Max(Floor(x[1], x[2]), 1)

\* the calculator's fields after calculate() returned
CalculateFields(c) ==
    IF ~c.does_not_overclock /\ c.has_one_tick_discount
    THEN [c EXCEPT !.recipe_voltage = OneTickDiscount(c)]
    ELSE c

\* the locals duration and recipe_voltage of calculate() after lines
\* 186-200, on the overclocking path
SteppedLocals(c) ==
    LET duration0 == Ceil(c.duration * c.speed_boost[1], c.speed_boost[2])
        oc == OverclockCount(c)
        hoc == HeatOverclockCount(c)
        v1 == MulPow(<<c.recipe_voltage, 1>>, c.eut_increase_per_oc, oc)
        d1 == MulPow(<<duration0, 1>>, c.duration_decrease_per_oc, -(oc - hoc))
        duration1 == Floor(d1[1], d1[2])
        d2 == MulPow(<<duration1, 1>>, c.duration_decrease_per_heat_oc, -hoc)
    IN  [duration |-> Floor(d2[1], d2[2]),
         recipe_voltage |-> Floor(v1[1], v1[2])]

\* the locals after lines 212-213: through _do_laser_oc with does_laser_oc
LaserLocals(c, s) ==
    IF c.does_laser_oc
    THEN [duration |-> DoLaserOc(c, s.duration, s.recipe_voltage).duration,
          recipe_voltage |->
              DoLaserOc(c, s.duration, s.recipe_voltage).recipe_voltage]
    ELSE s

\* lines 215-226: the clamp of the duration, the final power draw, the result
ClampedResult(c, l, overclock_count) ==
    OverclockCalculatorResult(
        IF l.duration < 1 THEN 1 ELSE l.duration,
        FinalRecipeEut(c, l.recipe_voltage, HeatDiscountMultiplier(c)),
        overclock_count)

\* the result calculate() returns, when it raises nothing
CalculateResult(c) ==
    IF c.does_not_overclock
    THEN OverclockCalculatorResult(
             Ceil(c.duration * c.speed_boost[1], c.speed_boost[2]),
             FinalRecipeEut(c, c.recipe_voltage, HeatDiscountMultiplier(c)),
             0)
    ELSE ClampedResult(c, LaserLocals(c, SteppedLocals(c)), OverclockCount(c))

----------------------------------------------------------------------------
(* OverclockCalculator: the sub-tick projections used by ParallelHelper.   *)

\* the exception calculate_duration_under_one_tick() raises, or "none"
DurationUnderOneTickError(c) ==
    IF c.does_not_overclock THEN "none"
    ELSE IF ~TiersDefined(c) THEN "ValueError"
    ELSE "none"

\* calculate_duration_under_one_tick(), a rational
DurationUnderOneTick(c) ==
    IF c.does_not_overclock THEN <<c.duration, 1>>
    ELSE
    LET n0 == AmountOfOverclocks(MachinePowerTier(c),
                  RecipePowerTier(c, HeatDiscountMultiplier(c)))
        normal_overclocks ==
            IF c.limits_overclocks THEN Min(n0, c.max_overclocks) ELSE n0
        heat_overclocks == Min(AmountOfHeatOverclocks(c), normal_overclocks)
    IN  MulPow(MulPow(<<c.duration * c.speed_boost[1], c.speed_boost[2]>>,
                      c.duration_decrease_per_oc,
                      -(normal_overclocks - heat_overclocks)),
               c.duration_decrease_per_heat_oc, -heat_overclocks)

\* the exception calculate_eut_consumption_under_one_tick() raises, or
\* "none": math.log(current_parallel / original_max_parallel, base) is a
\* ValueError for a quotient of 0 and a ZeroDivisionError for a base of 1
EutConsumptionUnderOneTickError(c, original_max_parallel, current_parallel) ==
    IF c.does_not_overclock THEN "none"
    ELSE IF current_parallel <= 0 THEN "ValueError"
    ELSE IF c.duration_decrease_per_heat_oc = 1 THEN "ZeroDivisionError"
    ELSE IF c.duration_decrease_per_oc = 1 THEN "ZeroDivisionError"
    ELSE IF ~TiersDefined(c) THEN "ValueError"
    ELSE "none"

\* calculate_eut_consumption_under_one_tick(): the two powers of
\* eut_increase_per_oc, of exponents x and amount_total_oc - x, multiply to
\* eut_increase_per_oc ^ amount_total_oc
EutConsumptionUnderOneTick(c, original_max_parallel, current_parallel) ==
    IF c.does_not_overclock THEN c.recipe_voltage
    ELSE
    LET hdm == HeatDiscountMultiplier(c)
        t0 == AmountOfOverclocks(MachinePowerTier(c), RecipePowerTier(c, hdm))
        t1 == IF c.recipe_voltage <= ULV
              THEN Min(t0, RecipeToMachineVoltageDiff(c)) ELSE t0
        amount_total_oc ==
            IF c.limits_overclocks THEN Min(t1, c.max_overclocks) ELSE t1
        x == Mul(Mul(MulPow(<<c.recipe_voltage * original_max_parallel
                                * c.recipe_amperage, 1>>,
                            c.eut_increase_per_oc, amount_total_oc),
                     c.eut_discount), hdm)
    IN  Ceil(x[1], x[2])

----------------------------------------------------------------------------
(* IngredientCollection: a sequence of [name, quant] entries; looking a    *)
(* name up gives the quantities of every entry of that name.               *)

Contains(coll, name) == \E i \in 1..Len(coll) : coll[i].name = name

RECURSIVE SumQuant(_, _, _)
SumQuant(coll, name, i) ==
    IF i > Len(coll) THEN 0
    ELSE (IF coll[i].name = name THEN coll[i].quant ELSE 0)
         + SumQuant(coll, name, i + 1)

\* sum(collection[name])
SumOf(coll, name) == SumQuant(coll, name, 1)

----------------------------------------------------------------------------
(* ParallelHelper.                                                         *)

\* math.inf, as a ratio that no ratio n/d with d > 0 exceeds
Inf == <<1, 0>>

\* the loop keeping the largest ratio: the comparison the other way round
RECURSIVE InputsScanLargest(_, _, _)
InputsScanLargest(h, i, smallest_ratio) ==
    IF i > Len(h.recipe_inputs)
    THEN [absent |-> FALSE, smallest_ratio |-> smallest_ratio]
    ELSE
    LET name == h.recipe_inputs[i].name
        ratio == <<SumOf(h.ingredient_inputs, name), SumOf(h.recipe_inputs, name)>>
    IN  IF ~Contains(h.ingredient_inputs, name)
        THEN [absent |-> TRUE, smallest_ratio |-> smallest_ratio]
        ELSE InputsScanLargest(h, i + 1,
                 IF Less(smallest_ratio, ratio) THEN ratio ELSE smallest_ratio)

\* the loop of max_parallel_calculated_by_inputs, from the i-th recipe input
RECURSIVE InputsScan(_, _, _)
InputsScan(h, i, smallest_ratio) ==
    IF i > Len(h.recipe_inputs)
    THEN [absent |-> FALSE, smallest_ratio |-> smallest_ratio]
    ELSE
    LET name == h.recipe_inputs[i].name
        ratio == <<SumOf(h.ingredient_inputs, name), SumOf(h.recipe_inputs, name)>>
    IN  IF ~Contains(h.ingredient_inputs, name)
        THEN [absent |-> TRUE, smallest_ratio |-> smallest_ratio]
        ELSE InputsScan(h, i + 1,
                 IF Less(ratio, smallest_ratio) THEN ratio ELSE smallest_ratio)

\* max_parallel_calculated_by_inputs without the cap of max_parallel on the
\* smallest ratio
MaxParallelCalculatedByInputsUncapped(h, max_parallel) ==
    LET s == InputsScan(h, 1, Inf)
    IN  IF s.absent THEN 0
        ELSE IF s.smallest_ratio # Inf
        THEN Floor(s.smallest_ratio[1], s.smallest_ratio[2])
        ELSE max_parallel

\* max_parallel_calculated_by_inputs(max_parallel)
MaxParallelCalculatedByInputs(h, max_parallel) ==
    LET s == InputsScan(h, 1, Inf)
    IN  IF s.absent THEN 0
        ELSE Min(max_parallel,
                 IF s.smallest_ratio # Inf
                 THEN Floor(s.smallest_ratio[1], s.smallest_ratio[2])
                 ELSE max_parallel)

\* ParallelHelper.validate(): the two cached fields and the exception
ActualRecipeEut(c, eut_modifier) ==
    Ceil(c.recipe_voltage * eut_modifier[1], eut_modifier[2])
AvailableEut(c) == c.machine_voltage * c.machine_amperage
\* validate() rejecting a recipe that takes all of the available power
HelperValidateStrict(c, eut_modifier) ==
    IF ActualRecipeEut(c, eut_modifier) >= AvailableEut(c)
    THEN "ValueError" ELSE "none"

HelperValidate(c, eut_modifier) ==
    IF ActualRecipeEut(c, eut_modifier) > AvailableEut(c)
    THEN "ValueError" ELSE "none"

ParallelHelperResult(parallel, recipe_voltage, duration_multiplier, calculator_result) ==
    [parallel |-> parallel, recipe_voltage |-> recipe_voltage,
     duration_multiplier |-> duration_multiplier,
     calculator_result |-> calculator_result]

\* build(), lines 114-117: the candidate ceiling after the sub-tick
\* inflation, for a sub-tick duration tick_time_after_oc > 0
MaxParallelBeforeBatchMode(max_parallel, tick_time_after_oc) ==
    IF Less(tick_time_after_oc, <<1, 1>>)
    THEN Trunc(max_parallel * tick_time_after_oc[2], tick_time_after_oc[1])
    ELSE max_parallel

\* build() without the power budget
ActualMaxParallelUnbudgeted(h, max_parallel_before_batch_mode) ==
    max_parallel_before_batch_mode

\* build(), lines 126-131: the ceiling the power budget leaves
ActualMaxParallel(h, max_parallel_before_batch_mode) ==
    IF h.actual_recipe_eut > 0
    THEN Min(max_parallel_before_batch_mode,
             Trunc(h.available_eut, h.actual_recipe_eut))
    ELSE max_parallel_before_batch_mode

\* build(), lines 114-136: current_parallel
CurrentParallel(h, tick_time_after_oc) ==
    MaxParallelCalculatedByInputs(h,
        ActualMaxParallel(h,
            MaxParallelBeforeBatchMode(h.max_parallel, tick_time_after_oc)))

\* what a call of build() leaves: the exception raised or "none", the
\* result returned, and the calculator's fields
BuildOutcome(e, r, c) == [err |-> e, ret |-> r, calc |-> c]

\* build(), lines 143-161: the result, from the result res_calc of
\* calculate() on the calculator c2
BuildResult(h, c2, current_parallel, eut_use_after_oc, res_calc) ==
    BuildOutcome("none",
        ParallelHelperResult(
            current_parallel,
            IF current_parallel > h.max_parallel
            THEN eut_use_after_oc ELSE res_calc.recipe_voltage,
            1, res_calc),
        CalculateFields(c2))

\* build(), lines 138-143, c2 being the calculator after line 141
BuildCalculate(h, c1, c2, current_parallel) ==
    IF Validate(c2) # "none" THEN BuildOutcome(Validate(c2), NoObject, c2)
    ELSE IF CalculateError(c2) # "none"
    THEN BuildOutcome(CalculateError(c2), NoObject, c2)
    ELSE BuildResult(h, c2, current_parallel,
             EutConsumptionUnderOneTick(c1, h.max_parallel, current_parallel),
             CalculateResult(c2))

\* build(), lines 138-161, c1 being the calculator after line 112
BuildParallel(h, c1, current_parallel) ==
    IF EutConsumptionUnderOneTickError(c1, h.max_parallel, current_parallel)
           # "none"
    THEN BuildOutcome(
             EutConsumptionUnderOneTickError(c1, h.max_parallel,
                                             current_parallel),
             NoObject, c1)
    ELSE BuildCalculate(h, c1,
             [c1 EXCEPT !.parallel = Min(current_parallel, h.max_parallel)],
             current_parallel)

\* build(), lines 114-161: the quotient max_parallel / tick_time_after_oc
\* is a ZeroDivisionError for a sub-tick duration of 0
BuildTick(h, c1, tick_time_after_oc) ==
    IF tick_time_after_oc[1] = 0
    THEN BuildOutcome("ZeroDivisionError", NoObject, c1)
    ELSE BuildParallel(h, c1, CurrentParallel(h, tick_time_after_oc))

\* build(), lines 113-161, c1 being the calculator after line 112
BuildSized(h, c1) ==
    IF DurationUnderOneTickError(c1) # "none"
    THEN BuildOutcome(DurationUnderOneTickError(c1), NoObject, c1)
    ELSE BuildTick(h, c1, DurationUnderOneTick(c1))

\* build()
Build(h, c) ==
    IF h.max_parallel <= 0
    THEN BuildOutcome("none",
             ParallelHelperResult(0, 0, 0, OverclockCalculatorResult(0, 0, 0)),
             c)
    ELSE BuildSized(h, [c EXCEPT !.parallel = h.max_parallel])

----------------------------------------------------------------------------
(* Construction of the two objects.                                        *)

\* the defaults of OverclockCalculator's keyword arguments
Defaults ==
    [recipe_amperage |-> 1, machine_amperage |-> 1, parallel |-> 1,
     speed_boost |-> <<1, 1>>, does_not_overclock |-> FALSE,
     eut_discount |-> <<1, 1>>, eut_increase_per_oc |-> 4,
     duration_decrease_per_oc |-> 2, has_one_tick_discount |-> FALSE,
     does_amperage_oc |-> FALSE, does_laser_oc |-> FALSE,
     laser_oc_penalty |-> <<3, 10>>, does_heat_oc |-> FALSE,
     recipe_heat |-> 0, machine_heat |-> 0,
     duration_decrease_per_heat_oc |-> 4, has_heat_discount |-> FALSE,
     heat_discount_multi |-> <<19, 20>>,
     enables_perfect_oc |-> FALSE, max_oc_count |-> -1]

\* enable_perfect_oc()
EnablePerfectOc(c) == [c EXCEPT !.duration_decrease_per_oc = 4]

\* limit_overclock_counts(max_overclocks)
LimitOverclockCounts(c, max_overclocks) ==
    [c EXCEPT !.limits_overclocks = TRUE, !.max_overclocks = max_overclocks]

\* the object __init__ and __post_init__ build from the arguments a, as it
\* is when __post_init__ calls validate()
PostInit(a) ==
    LET c0 == [recipe_voltage |-> a.recipe_voltage, duration |-> a.duration,
               machine_voltage |-> a.machine_voltage,
               recipe_amperage |-> a.recipe_amperage,
               machine_amperage |-> a.machine_amperage,
               parallel |-> a.parallel, speed_boost |-> a.speed_boost,
               does_not_overclock |-> a.does_not_overclock,
               eut_discount |-> a.eut_discount,
               eut_increase_per_oc |-> a.eut_increase_per_oc,
               duration_decrease_per_oc |-> a.duration_decrease_per_oc,
               has_one_tick_discount |-> a.has_one_tick_discount,
               does_amperage_oc |-> a.does_amperage_oc,
               does_laser_oc |-> a.does_laser_oc,
               laser_oc_penalty |-> a.laser_oc_penalty,
               does_heat_oc |-> a.does_heat_oc,
               recipe_heat |-> a.recipe_heat, machine_heat |-> a.machine_heat,
               duration_decrease_per_heat_oc |-> a.duration_decrease_per_heat_oc,
               has_heat_discount |-> a.has_heat_discount,
               heat_discount_multi |-> a.heat_discount_multi,
               limits_overclocks |-> FALSE, max_overclocks |-> 0]
        c1 == IF a.enables_perfect_oc THEN EnablePerfectOc(c0) ELSE c0
    IN  IF a.max_oc_count >= 0 THEN LimitOverclockCounts(c1, a.max_oc_count)
        ELSE c1

----------------------------------------------------------------------------
(* The arguments the operations are called with.                           *)

RecipeVoltages == {0, 8, 120}
Durations == {0, 1, 2, 400}
MachineVoltages == {8 * Pow(4, t) : t \in 0..MaxTier}
Positional ==
    {[recipe_voltage |-> rv, duration |-> d, machine_voltage |-> mv] :
        rv \in RecipeVoltages, d \in Durations, mv \in MachineVoltages}

OverclockFlags ==
    {[does_not_overclock |-> FALSE],
     [does_not_overclock |-> TRUE],
     [has_one_tick_discount |-> TRUE],
     [does_amperage_oc |-> TRUE, machine_amperage |-> 4],
     [does_laser_oc |-> TRUE, machine_amperage |-> 4],
     [does_laser_oc |-> TRUE, has_one_tick_discount |-> TRUE],
     [does_laser_oc |-> TRUE, does_amperage_oc |-> TRUE]}

HeatFlags ==
    {[does_heat_oc |-> FALSE]}
    \cup {[does_heat_oc |-> fl[1], has_heat_discount |-> fl[2],
           recipe_heat |-> 1800, machine_heat |-> 1800 + 900 * j] :
            fl \in {<<TRUE, FALSE>>, <<FALSE, TRUE>>, <<TRUE, TRUE>>},
            j \in -1..MaxHeatSteps}

Factors ==
    {[speed_boost |-> <<1, 1>>],
     [speed_boost |-> <<1, 2>>, eut_discount |-> <<9, 10>>]}

Steps ==
    {[eut_increase_per_oc |-> 4],
     [enables_perfect_oc |-> TRUE],
     [eut_increase_per_oc |-> 0],
     [duration_decrease_per_oc |-> 0],
     [duration_decrease_per_oc |-> 0, enables_perfect_oc |-> TRUE],
     [duration_decrease_per_heat_oc |-> 0]}

OcLimits == -1..MaxOcLimit

\* the constructor arguments of the calculator-only specification
CalcArgs ==
    {p @@ f @@ h @@ x @@ s @@ [max_oc_count |-> m] @@ Defaults :
        p \in Positional, f \in OverclockFlags, h \in HeatFlags,
        x \in Factors, s \in Steps, m \in OcLimits}

\* the constructor arguments of the specification with the helper
HelperCalcArgs ==
    {p @@ f @@ Defaults :
        p \in Positional,
        f \in {[does_not_overclock |-> FALSE],
               [does_not_overclock |-> TRUE],
               [has_one_tick_discount |-> TRUE],
               [does_amperage_oc |-> TRUE, machine_amperage |-> 4],
               [speed_boost |-> <<1, 2>>, eut_discount |-> <<9, 10>>],
               [does_heat_oc |-> TRUE, has_heat_discount |-> TRUE,
                recipe_heat |-> 1800,
                machine_heat |-> 1800 + 900 * MaxHeatSteps]}}

Ingredient(name, quant) == [name |-> name, quant |-> quant]

\* a recipe of two ingredients, and the recipe that requires none
Recipe == <<Ingredient("a", 2), Ingredient("b", 1)>>
NoIngredients == << >>

IngredientInputs ==
    {NoIngredients,
     <<Ingredient("a", 8)>>,
     <<Ingredient("a", 1), Ingredient("b", 8)>>,
     <<Ingredient("a", 8), Ingredient("b", 0)>>,
     <<Ingredient("a", 4), Ingredient("b", 8)>>,
     <<Ingredient("a", 3), Ingredient("b", 9), Ingredient("a", 3)>>,
     <<Ingredient("a", 100), Ingredient("b", 100)>>}

MaxParallels == {0, 1, MaxParallelArg}

HelperArgs ==
    {[ingredient_inputs |-> i, recipe_inputs |-> Recipe,
      eut_modifier |-> <<1, 1>>, max_parallel |-> n] :
        i \in IngredientInputs, n \in MaxParallels}
    \cup
    {[ingredient_inputs |-> <<Ingredient("a", 100), Ingredient("b", 100)>>,
      recipe_inputs |-> r, eut_modifier |-> m, max_parallel |-> n] :
        r \in {Recipe, NoIngredients}, m \in {<<1, 1>>, <<9, 10>>},
        n \in MaxParallels}

----------------------------------------------------------------------------
(* The state machine.                                                      *)

Init ==
    /\ calc = NoObject
    /\ helper = NoObject
    /\ op = "start"
    /\ arg = NoObject
    /\ err = "none"
    /\ ret = NoObject
    /\ before = NoObject
    /\ results = <<>>
    /\ nbuild = 0

\* OverclockCalculator(...): __init__, __post_init__ and its validate()
NewCalculator(Args) ==
    /\ op = "start"
    /\ \E a \in Args :
        LET c == PostInit(a)
        IN  /\ arg' = a
            /\ err' = Validate(c)
            /\ calc' = IF Validate(c) = "none" THEN c ELSE NoObject
    /\ op' = "OverclockCalculator"
    /\ ret' = NoObject
    /\ before' = NoObject
    /\ UNCHANGED <<helper, results, nbuild>>

\* calculator.limit_overclock_counts(n), before any calculation
LimitOverclockCountsCall ==
    /\ calc # NoObject
    /\ op = "OverclockCalculator"
    /\ ~calc.limits_overclocks
    /\ \E n \in OcLimits :
        /\ arg' = n
        /\ calc' = LimitOverclockCounts(calc, n)
    /\ op' = "limit_overclock_counts"
    /\ err' = "none"
    /\ ret' = NoObject
    /\ before' = calc
    /\ results' = <<>>
    /\ UNCHANGED <<helper, nbuild>>

\* calculator.validate()
ValidateCall ==
    /\ calc # NoObject
    /\ op \in {"OverclockCalculator", "limit_overclock_counts"}
    /\ op' = "validate"
    /\ arg' = NoObject
    /\ err' = Validate(calc)
    /\ ret' = NoObject
    /\ before' = calc
    /\ UNCHANGED <<calc, helper, results, nbuild>>

\* calculator.calculate()
CalculateCall ==
    /\ calc # NoObject
    /\ Len(results) < MaxCalls
    /\ op' = "calculate"
    /\ arg' = NoObject
    /\ before' = calc
    /\ err' = CalculateError(calc)
    /\ IF CalculateError(calc) = "none"
       THEN /\ ret' = CalculateResult(calc)
            /\ calc' = CalculateFields(calc)
            /\ results' = Append(results, CalculateResult(calc))
       ELSE /\ ret' = NoObject
            /\ UNCHANGED <<calc, results>>
    /\ UNCHANGED <<helper, nbuild>>

NextOC ==
    \/ NewCalculator(CalcArgs)
    \/ LimitOverclockCountsCall
    \/ ValidateCall
    \/ CalculateCall

SpecOC == Init /\ [][NextOC]_vars

\* ParallelHelper(calculator, ingredient_inputs, recipe_inputs, ...):
\* __init__, __post_init__ and its validate()
NewHelper ==
    /\ calc # NoObject
    /\ helper = NoObject
    /\ \E a \in HelperArgs :
        /\ arg' = a
        /\ err' = HelperValidate(calc, a.eut_modifier)
        /\ helper' =
            IF HelperValidate(calc, a.eut_modifier) = "none"
            THEN [ingredient_inputs |-> a.ingredient_inputs,
                  recipe_inputs |-> a.recipe_inputs,
                  eut_modifier |-> a.eut_modifier,
                  max_parallel |-> a.max_parallel,
                  actual_recipe_eut |-> ActualRecipeEut(calc, a.eut_modifier),
                  available_eut |-> AvailableEut(calc)]
            ELSE NoObject
    /\ op' = "ParallelHelper"
    /\ ret' = NoObject
    /\ before' = calc
    /\ UNCHANGED <<calc, results, nbuild>>

\* helper.build()
BuildCall ==
    /\ helper # NoObject
    /\ nbuild < MaxBuilds
    /\ op' = "build"
    /\ arg' = NoObject
    /\ before' = calc
    /\ err' = Build(helper, calc).err
    /\ ret' = Build(helper, calc).ret
    /\ calc' = Build(helper, calc).calc
    /\ results' = <<>>
    /\ nbuild' = nbuild + 1
    /\ UNCHANGED helper

\* helper.max_parallel_calculated_by_inputs(max_parallel)
MaxParallelCalculatedByInputsCall ==
    /\ helper # NoObject
    /\ \E max_parallel \in MaxParallels :
        /\ arg' = max_parallel
        /\ ret' = MaxParallelCalculatedByInputs(helper, max_parallel)
    /\ op' = "max_parallel_calculated_by_inputs"
    /\ err' = "none"
    /\ before' = calc
    /\ UNCHANGED <<calc, helper, results, nbuild>>

Next ==
    \/ NewCalculator(HelperCalcArgs)
    \/ CalculateCall
    \/ NewHelper
    \/ BuildCall
    \/ MaxParallelCalculatedByInputsCall

Spec == Init /\ [][Next]_vars

\* the voltages looked up: around every power 8 * 4^n up to two past
\* MAX_PLUS, the doubles 16 * 4^n in between, and around 0
LookupVoltages ==
    {WideAdd(TierVoltage(n), k) :
        n \in 0..(MAX_PLUS_TIER + 2), k \in -MaxVoltageOffset..MaxVoltageOffset}
    \cup {WideAdd(<<2 * TierVoltage(n)[1], 0>>, 2 * TierVoltage(n)[2]) :
              n \in 0..(MAX_PLUS_TIER + 1)}
    \cup {Wide(k) : k \in -MaxVoltageOffset..MaxVoltageOffset}

\* VoltageTier(value)
VoltageTierLookup ==
    /\ \E value \in LookupVoltages :
        /\ arg' = value
        /\ err' = VoltageTier(value).err
        /\ ret' = VoltageTier(value).ret
    /\ op' = "VoltageTier"
    /\ UNCHANGED <<calc, helper, before, results, nbuild>>

NextVT == VoltageTierLookup

SpecVT == Init /\ [][NextVT]_vars

----------------------------------------------------------------------------
(* The laser loop of calculate(), one iteration at a time: results holds   *)
(* the loop's locals at the head of every iteration so far.                *)

LaserFlags ==
    {[does_laser_oc |-> TRUE, machine_amperage |-> 4],
     [does_laser_oc |-> TRUE, has_one_tick_discount |-> TRUE],
     [does_laser_oc |-> TRUE, does_amperage_oc |-> TRUE]}

\* durations that are powers of both step divisors besides the others
LaserDurations == Durations \cup {4, 16}
LaserPositional ==
    {[recipe_voltage |-> rv, duration |-> d, machine_voltage |-> mv] :
        rv \in RecipeVoltages, d \in LaserDurations, mv \in MachineVoltages}

\* the constructor arguments of the specification of the laser loop
LaserArgs ==
    {p @@ f @@ x @@ s @@ [max_oc_count |-> m] @@ Defaults :
        p \in LaserPositional, f \in LaserFlags, x \in Factors, s \in Steps,
        m \in OcLimits}

\* calculate() from its first line to the call of _do_laser_oc and the first
\* evaluation of the loop's condition
LaserEnter ==
    /\ calc # NoObject
    /\ op = "OverclockCalculator"
    /\ ~calc.does_not_overclock
    /\ calc.does_laser_oc
    /\ CalculateError(calc) = "none"
    /\ op' = "_do_laser_oc"
    /\ arg' = SteppedLocals(calc)
    /\ results' = <<LaserStart(calc, SteppedLocals(calc).duration,
                               SteppedLocals(calc).recipe_voltage)>>
    /\ before' = calc
    /\ calc' = CalculateFields(calc)
    /\ UNCHANGED <<helper, err, ret, nbuild>>

\* one iteration of the loop: the body and the next evaluation of the
\* condition
LaserIterate ==
    /\ op = "_do_laser_oc"
    /\ LaserGuard(calc, results[Len(results)])
    /\ results' = Append(results, LaserStep(calc, results[Len(results)]))
    /\ UNCHANGED <<calc, helper, op, arg, err, ret, before, nbuild>>

\* the loop's exit and the return of _do_laser_oc
LaserReturn ==
    /\ op = "_do_laser_oc"
    /\ ~LaserGuard(calc, results[Len(results)])
    /\ op' = "return"
    /\ ret' = [duration |-> results[Len(results)].duration,
               recipe_voltage |-> results[Len(results)].recipe_voltage]
    /\ UNCHANGED <<calc, helper, arg, err, before, results, nbuild>>

NextLaser ==
    \/ NewCalculator(LaserArgs)
    \/ LaserEnter
    \/ LaserIterate
    \/ LaserReturn

\* calculate() runs on one thread and nothing suspends it: a loop that can
\* take a step takes it
SpecLaser ==
    /\ Init /\ [][NextLaser]_vars
    /\ WF_vars(LaserIterate) /\ WF_vars(LaserReturn)

----------------------------------------------------------------------------
(* The claims.                                                             *)

\* C1: every result calculate() returns has duration >= 1 and power draw
\* (recipe_voltage) >= 0, on every path
C1_DurationAndPowerBounds ==
    (op = "calculate" /\ err = "none") =>
        /\ ret.duration >= 1
        /\ ret.recipe_voltage >= 0

\* C2 as stated: every result build() returns has
\* 0 <= parallel <= the requested max_parallel
C2_ParallelWithinRequested ==
    (op = "build" /\ err = "none") =>
        /\ ret.parallel >= 0
        /\ ret.parallel <= helper.max_parallel

\* C2 as amended: every result build() returns has parallel >= 0, and
\* parallel <= max_parallel when the sub-tick duration at full parallel is
\* at least one tick, and parallel <= floor(max_parallel / sub-tick
\* duration), the inflated ceiling, when it is below one tick
C2_ParallelWithinCeiling ==
    (op = "build" /\ err = "none") =>
        /\ ret.parallel >= 0
        /\ IF helper.max_parallel <= 0 THEN ret.parallel = 0
           ELSE
           LET tick == DurationUnderOneTick(
                           [before EXCEPT !.parallel = helper.max_parallel])
           IN  IF Less(tick, <<1, 1>>)
               THEN ret.parallel * tick[1] <= helper.max_parallel * tick[2]
               ELSE ret.parallel <= helper.max_parallel

\* C2's case: build() returned more parallels than were requested
C2_Witness ==
    /\ op = "build" /\ err = "none"
    /\ ret.parallel > helper.max_parallel

\* C3: two calculate() calls in a row on the same calculator return equal
\* results (stated over calculators whose overclock cap, if one is set, is
\* not negative)
C3_CalculateTwiceEqual ==
    (Len(results) >= 2 /\ (calc.limits_overclocks => calc.max_overclocks >= 0))
    => results[2] = results[1]

\* C4: calculate() and build() leave every field of the calculator as it
\* was when they were called
C4_ConfigurationUnchanged ==
    (op \in {"calculate", "build"} /\ err = "none") => calc = before

\* the names a recipe requires
RequiredNames(h) == {h.recipe_inputs[i].name : i \in 1..Len(h.recipe_inputs)}
\* some required ingredient is absent, or there is less of it than one
\* recipe takes
ShortOfInputs(h) ==
    \E n \in RequiredNames(h) :
        \/ ~Contains(h.ingredient_inputs, n)
        \/ SumOf(h.ingredient_inputs, n) < SumOf(h.recipe_inputs, n)

\* C5: max_parallel_calculated_by_inputs(max_parallel) is the largest count
\* up to max_parallel that every required ingredient suffices for, that is
\* min(max_parallel, floor(min available / required)); it is 0 when a
\* required ingredient is absent or short of one recipe, and max_parallel
\* when the recipe requires nothing
C5_InputLimitedParallel ==
    op = "max_parallel_calculated_by_inputs" =>
        /\ RequiredNames(helper) = {} => ret = arg
        /\ ShortOfInputs(helper) => ret = 0
        /\ ~ShortOfInputs(helper) =>
            /\ ret <= arg
            /\ \A n \in RequiredNames(helper) :
                ret * SumOf(helper.recipe_inputs, n)
                    <= SumOf(helper.ingredient_inputs, n)
            /\ \/ ret = arg
               \/ \E n \in RequiredNames(helper) :
                    (ret + 1) * SumOf(helper.recipe_inputs, n)
                        > SumOf(helper.ingredient_inputs, n)

\* C5's case: the inputs, not max_parallel, limit the count
C5_Witness ==
    /\ op = "max_parallel_calculated_by_inputs"
    /\ ret > 0 /\ ret < arg

\* C6: with max_parallel >= 1 and an input-limited count of 0, build() on
\* an overclocking calculator raises nothing and returns parallel = 0
\* (stated over recipes of positive power and duration, where nothing else
\* can fail)
C6_BuildWithoutInputs ==
    ( /\ op = "build"
      /\ helper.max_parallel >= 1
      /\ ~before.does_not_overclock
      /\ before.recipe_voltage > 0 /\ before.duration > 0
      /\ MaxParallelCalculatedByInputs(helper, helper.max_parallel) = 0 )
    => (err = "none" /\ ret.parallel = 0)

\* the four conditions of C7, on the constructor's arguments
InvalidArguments(a) ==
    \/ a.does_laser_oc /\ a.does_amperage_oc
    \/ (IF a.enables_perfect_oc THEN 4 ELSE a.duration_decrease_per_oc) <= 0
    \/ a.duration_decrease_per_heat_oc <= 0
    \/ a.eut_increase_per_oc <= 0

\* C7: constructing a calculator raises the configuration error, and leaves
\* no calculator to calculate with, exactly when laser and amperage
\* overclock are both requested or the effective step duration divisor, the
\* heat-step duration divisor or the step power multiplier is <= 0; and
\* validate() raises nothing on a calculator with none of the four
C7_ValidationFailures ==
    /\ op = "OverclockCalculator" =>
        /\ err = "ValueError" <=> InvalidArguments(arg)
        /\ err = "none" <=> ~InvalidArguments(arg)
        /\ err = "ValueError" => (calc = NoObject /\ results = << >>)
        /\ err = "none" => calc = PostInit(arg)
    /\ op = "validate" =>
        (err = "none" <=>
            ~ \/ before.does_laser_oc /\ before.does_amperage_oc
              \/ before.duration_decrease_per_oc <= 0
              \/ before.duration_decrease_per_heat_oc <= 0
              \/ before.eut_increase_per_oc <= 0)

\* C7's case: a constructor call rejected for its heat-step divisor alone
C7_Witness ==
    /\ op = "OverclockCalculator" /\ err = "ValueError"
    /\ arg.duration_decrease_per_heat_oc <= 0
    /\ ~(arg.does_laser_oc /\ arg.does_amperage_oc)

\* the power figures the helper computed when it was validated are those
\* of the calculator it is about to size
ValidatedPower(h, c) ==
    /\ h.actual_recipe_eut = ActualRecipeEut(c, h.eut_modifier)
    /\ h.available_eut = AvailableEut(c)

C10_OverclockCountBounds ==
    (op = "calculate" /\ err = "none" /\ ~before.does_not_overclock) =>
        /\ ret.overclock_count >= 0
        /\ before.limits_overclocks =>
            ret.overclock_count <= before.max_overclocks

\* the calculator c on a machine of voltage v
AtMachineVoltage(c, v) == [c EXCEPT !.machine_voltage = v]

\* C11: of two calculators that differ only in machine_voltage, the one of
\* the higher voltage gets at least the overclock count of the other from
\* calculate()
C11_OverclockCountMonotone ==
    (op = "calculate" /\ err = "none") =>
        \A v \in MachineVoltages :
            CalculateError(AtMachineVoltage(before, v)) = "none"
            /\ ( v >= before.machine_voltage =>
                   CalculateResult(AtMachineVoltage(before, v)).overclock_count
                       >= ret.overclock_count )
            /\ ( v <= before.machine_voltage =>
                   CalculateResult(AtMachineVoltage(before, v)).overclock_count
                       <= ret.overclock_count )

\* C11's case: a capped calculator without amperage overclock that gets
\* strictly more overclocks on a machine of higher voltage
C11_Witness ==
    /\ op = "calculate" /\ err = "none"
    /\ before.limits_overclocks /\ ~before.does_amperage_oc
    /\ \E v \in MachineVoltages :
        /\ v > before.machine_voltage
        /\ CalculateResult(AtMachineVoltage(before, v)).overclock_count
               > ret.overclock_count

\* equality of two rationals
EqRat(x, y) == Reduced(x) = Reduced(y)

\* the heat surplus of a calculator, and its split 1800 * k + 900 * j
HeatSurplus(c) == c.machine_heat - c.recipe_heat
PerfectSteps(c) == HeatSurplus(c) \div HEAT_PERFECT_OVERCLOCK_THRESHOLD
PartialDiscounts(c) ==
    (HeatSurplus(c) % HEAT_PERFECT_OVERCLOCK_THRESHOLD)
        \div HEAT_DISCOUNT_THRESHOLD

\* calculate() returned on a calculator with heat overclock and heat
\* discount, a heat surplus 1800 * k + 900 * j >= 0, and power headroom for
\* k steps
HeatBoundaryCase ==
    /\ op = "calculate" /\ err = "none"
    /\ ~before.does_not_overclock
    /\ before.does_heat_oc /\ before.has_heat_discount
    /\ HeatSurplus(before) >= 0
    /\ OverclockCount(before) >= PerfectSteps(before)

\* C12 as stated: a heat surplus of 1800 * k + 900 * j with j in {0, 1} and
\* headroom for k steps gives k perfect overclocks and a heat discount of
\* heat_discount_multi ^ j
C12_HeatBoundaryAsStated ==
    HeatBoundaryCase =>
        /\ HeatOverclockCount(before) = PerfectSteps(before)
        /\ EqRat(HeatDiscountMultiplier(before),
                 <<Pow(before.heat_discount_multi[1], PartialDiscounts(before)),
                   Pow(before.heat_discount_multi[2], PartialDiscounts(before))>>)

\* C12 as amended: a heat surplus of 1800 * k + 900 * j with j in {0, 1} and
\* headroom for k steps gives k perfect overclocks and a heat discount of
\* heat_discount_multi ^ (2 * k + j), which is the discount in the power
\* draw calculate() returns
C12_HeatBoundary ==
    HeatBoundaryCase =>
        LET e == 2 * PerfectSteps(before) + PartialDiscounts(before)
            hdm == <<Pow(before.heat_discount_multi[1], e),
                     Pow(before.heat_discount_multi[2], e)>>
        IN  /\ HeatOverclockCount(before) = PerfectSteps(before)
            /\ EqRat(HeatDiscountMultiplier(before), hdm)
            /\ ~before.does_laser_oc =>
                ret.recipe_voltage =
                    FinalRecipeEut(before,
                        before.recipe_voltage
                            * Pow(before.eut_increase_per_oc, ret.overclock_count),
                        hdm)

\* C12's case: a surplus of 1800 * 1 + 900 * 1 with one perfect overclock
C12_Witness ==
    /\ HeatBoundaryCase
    /\ PerfectSteps(before) = 1 /\ PartialDiscounts(before) = 1
    /\ HeatOverclockCount(before) = 1

\* the rational x ^ e for an integer e of either sign
RatPow(x, e) ==
    IF e >= 0 THEN <<Pow(x[1], e), Pow(x[2], e)>>
    ELSE <<Pow(x[2], -e), Pow(x[1], -e)>>

\* the exponent C13 gives the heat discount
HeatDiscountExponent(c) ==
    IF c.has_heat_discount
    THEN HeatSurplus(c) \div HEAT_DISCOUNT_THRESHOLD
    ELSE 0

\* the power calculate() has reached before the final power draw is taken
PowerBeforeDiscount(c) ==
    IF c.does_not_overclock THEN c.recipe_voltage
    ELSE LaserLocals(c, SteppedLocals(c)).recipe_voltage

\* C13: the power draw calculate() returns is
\* ceil(power x eut_discount x heat_discount_multi ^ e x parallel x
\* recipe_amperage) with e = floor((machine_heat - recipe_heat) / 900) when
\* heat discount is enabled and e = 0 when it is not, whether or not the
\* surplus also pays for perfect overclocks
C13_HeatDiscountExponent ==
    (op = "calculate" /\ err = "none") =>
        LET hdm == RatPow(before.heat_discount_multi,
                          HeatDiscountExponent(before))
            f == Reduced(Mul(before.eut_discount, hdm))
        IN  ret.recipe_voltage
                = CeilMulDiv(PowerBeforeDiscount(before) * before.parallel
                                 * before.recipe_amperage, f[1], f[2])

\* C13's case: a surplus of 1800 with heat overclock, discounted twice
C13_Witness ==
    /\ op = "calculate" /\ err = "none"
    /\ before.has_heat_discount /\ before.does_heat_oc
    /\ HeatSurplus(before) = 1800
    /\ HeatOverclockCount(before) = 1
    /\ ret.recipe_voltage
           < FinalRecipeEutUndiscounted(before, PowerBeforeDiscount(before),
                                        <<1, 1>>)

\* C14: the duration multiplier of every result build() returns is >= 1,
\* and exactly 1 as the helper has no batch mode to enable, for every
\* max_parallel
C14_DurationMultiplier ==
    (op = "build" /\ err = "none") =>
        /\ ret.duration_multiplier >= 1
        /\ ret.duration_multiplier = 1

\* the smallest member whose voltage is >= value was returned
SmallestTierReturned(value) ==
    /\ err = "none"
    /\ ret \in Members
    /\ WideLeq(value, ret)
    /\ \A m \in Members : WideLeq(value, m) => WideLeq(ret, m)

\* C15 as stated: VoltageTier(v) is the smallest tier of voltage >= v for
\* 1 <= v < voltage(15) * 4, and an error for v <= 0 and v >= voltage(15) * 4
C15_TierForVoltageAsStated ==
    op = "VoltageTier" =>
        IF InMissingRange(arg) THEN SmallestTierReturned(arg)
        ELSE err = "ValueError"

\* C15 as amended: VoltageTier(v) is the smallest tier of voltage >= v for
\* 1 <= v <= voltage(15), and an error for v <= 0 and v > voltage(15)
C15_TierForVoltage ==
    op = "VoltageTier" =>
        IF WideLeq(Wide(1), arg) /\ WideLeq(arg, TierVoltage(MAX_PLUS_TIER))
        THEN SmallestTierReturned(arg)
        ELSE err = "ValueError"

\* C15's case: a voltage just above a tier's, looked up as the next tier
C15_Witness ==
    /\ op = "VoltageTier" /\ err = "none"
    /\ \E n \in 1..(MAX_PLUS_TIER - 1) :
        /\ arg = WideAdd(TierVoltage(n), 1)
        /\ ret = TierVoltage(n + 1)

\* C16: with a heat-discount base in (0, 1], the heat-discount multiplier
\* calculate() uses lies in (0, 1], for every machine heat and recipe heat
C16_HeatDiscountRange ==
    ( /\ op = "calculate" /\ err = "none"
      /\ before.heat_discount_multi[1] > 0
      /\ before.heat_discount_multi[1] <= before.heat_discount_multi[2] )
    => /\ HeatDiscountMultiplier(before)[1] > 0
       /\ HeatDiscountMultiplier(before)[1] <= HeatDiscountMultiplier(before)[2]

\* step 1 of calculate(): the duration ceil(duration * speed_boost), line 154
SpeedBoostedDuration(c) == Ceil(c.duration * c.speed_boost[1], c.speed_boost[2])

\* C17: the overclock count calculate() returns on the overclocking path never
\* exceeds ceil(log_d(D)), for the duration D = ceil(duration * speed_boost)
\* after the speed boost and the duration divisor d of one step
C17_OverclockCountWithinNeeded ==
    ( /\ op = "calculate" /\ err = "none"
      /\ ~before.does_not_overclock
      /\ SpeedBoostedDuration(before) >= 1 )
    => ret.overclock_count
           <= CeilLog(SpeedBoostedDuration(before), 1,
                      before.duration_decrease_per_oc)

OneTickExponent(c) ==
    AmountOfOverclocks(MulPow(MachinePowerTier(c), 4, -OverclockCount(c)),
                       RecipePowerTier(c, HeatDiscountMultiplier(c)))

\* max(1, floor(P / d^e)) for the stepped power P of calculate()
SteppedPowerReduced(c) ==
    LET x == MulPow(<<SteppedLocals(c).recipe_voltage, 1>>,
                    c.duration_decrease_per_oc, -OneTickExponent(c))
    IN  Max(Floor(x[1], x[2]), 1)

\* C19: with the one-tick discount and without laser overclock, the power
\* draw calculate() returns is the final power of max(1, floor(P / d^e)), for
\* the stepped power P and e = int(machine tier - recipe tier - steps)
C19_OneTickDiscountReturned ==
    ( /\ op = "calculate" /\ err = "none"
      /\ ~before.does_not_overclock
      /\ before.has_one_tick_discount
      /\ ~before.does_laser_oc )
    => ret.recipe_voltage
           = FinalRecipeEut(before, SteppedPowerReduced(before),
                            HeatDiscountMultiplier(before))

\* the iterations of the laser loop executed so far
LaserIterations == Len(results) - 1

\* C20: in the laser loop, after every executed iteration the accumulated
\* power is strictly less than machine_voltage * machine_amperage, and the
\* iterations executed are at most ceil(log_d(duration at the loop's entry))
C20_LaserLoopBounds ==
    op \in {"_do_laser_oc", "return"} =>
        /\ \A i \in 2..Len(results) :
               results[i].recipe_voltage
                   < calc.machine_voltage * calc.machine_amperage
        /\ LaserIterations
               <= CeilLog(results[1].duration, 1, calc.duration_decrease_per_oc)

\* the loop has left after as many iterations as the bound allows, more than
\* one, each having multiplied the power
C20_Witness ==
    /\ op = "return"
    /\ LaserIterations >= 2
    /\ LaserIterations
           = CeilLog(results[1].duration, 1, calc.duration_decrease_per_oc)
    /\ ret.recipe_voltage > results[1].recipe_voltage

====
